---- MODULE Spec2Model ----
(***************************************************************************)
(* Exit management and entry gate of kriptobot.                            *)
(*                                                                         *)
(*  - Trailing stop manager: position_manager.py (PositionManager).        *)
(*  - Staged take-profit:    trading_strategy.py (TPManager,               *)
(*    TradingStrategy.manage_open_trades), lbank_api.py (LBankTrader),     *)
(*    main.py (KriptoBot._manage_trades_job).                              *)
(*  - Entry gate:            trading_strategy.py (RiskManager,             *)
(*    TradingStrategy.process_telegram_signal / process_gemini_analysis /  *)
(*    execute_trade), lbank_api.py (LBankTrader.open_trade),               *)
(*    main.py (the handlers and jobs that call them).                      *)
(*  - Signal sender:         auto_trader.py (AutoTrader).                  *)
(*                                                                         *)
(* Numbers.  Prices of the trailing manager are integers in units of       *)
(* 0.00001 quote currency; update_stop_loss rounds to 4 decimals, that is  *)
(* to a multiple of 10 units.  The entry prices of Entries are multiples   *)
(* of 1000, so every stop price derived from them is already a multiple    *)
(* of 10 and round(x, 4) leaves it alone; those of LowEntries are not.     *)
(* Prices of the other parts are in units of 0.0001.  PnL is kept in       *)
(* hundredths of a percent, exact for the prices used.                     *)
(***************************************************************************)
EXTENDS Integers, Sequences, FiniteSets, TLC

VARIABLES
    positions_state,  \* PositionManager.positions_state: key -> record
    exch_sl,          \* stop-loss in force on the exchange (0: none set)
    bybit_pos,        \* the position the exchange reports: symbol, side, avgPrice
    last_poll,        \* log of the latest check_positions cycle
    restarts,         \* number of process restarts so far
    sl_at_restart,    \* level stop in force when the process was restarted (0: none)
    trade,            \* the row of the trades table
    tp_records,       \* rows of the tp_records table, in insertion order
    lbank_pos,        \* the position on LBank: volume (0: none listed), stop_loss (0: none)
    cycles,           \* number of management cycles run so far
    be_requests,      \* number of move_stop_to_entry requests sent so far
    last_cycle,       \* log of the latest _manage_trades_job run
    pos_evaluated,    \* a cycle has evaluated the position since it was opened
    other_pos,        \* a second open position, after bybit_pos in the exchange's list
    other_sl,         \* stop-loss in force on the exchange for other_pos (0: none set)
    other_poll,       \* log of the latest cycle for other_pos
    pm_pc,            \* where PositionManager.run is: "sleeping", "checking", "stopped", "crashed"
    pm_failure,       \* how the latest cycle of run ended
    proposal,         \* the signal or analysis the entry gate decided on last
    decision,         \* the TradeDecision it returned
    open_trades,      \* number of OPEN rows of the trades table the gate counts
    daily_perf,       \* today's row of daily_performance
    last_call,        \* log of the latest run of an entry handler
    pnl_call,         \* log of the latest call of calculate_pnl_percent on its own
    open_signals      \* AutoTrader.open_signals: symbols sent, in order

trail_vars ==
    <<positions_state, exch_sl, bybit_pos, last_poll, restarts, sl_at_restart, pos_evaluated>>

multi_vars == <<other_pos, other_sl, other_poll>>

run_vars == <<pm_pc, pm_failure>>

tp_vars == <<trade, tp_records, lbank_pos, cycles, be_requests, last_cycle>>

gate_vars == <<proposal, decision, open_trades, daily_perf, last_call>>

calc_vars == <<pnl_call>>

auto_vars == <<open_signals>>

vars == <<trail_vars, multi_vars, run_vars, tp_vars, gate_vars, calc_vars, auto_vars>>

-----------------------------------------------------------------------------
(* Bounds and input sets *)

MaxRestarts == 1

Sides == {"Buy", "Sell"}

Entries == {1000, 2000}

\* mark prices for the cycles over two positions
MultiMarks == {0, 800, 1200, 1400}

\* entry and mark prices of a symbol that trades below 0.001
LowEntries == {80, 160}

LowMarks == {0, 47, 63, 80, 97, 113, 195}

\* mark prices the exchange may report; 0 is "no price" (markPrice missing or '0')
Marks == {0, 800, 1000, 1200, 1250, 1400, 1600, 2400, 2900}

-----------------------------------------------------------------------------
(* PositionManager: pure helpers *)

trailing_step == 20

get_position_key(pos) == <<pos.symbol, pos.side>>

calculate_pnl_percent_LongOnly(entry_price, current_price, side) ==
    IF entry_price = 0 THEN 0
    ELSE ((current_price - entry_price) * 10000) \div entry_price

\* PnL in hundredths of a percent
calculate_pnl_percent(entry_price, current_price, side) ==
    IF entry_price = 0 THEN 0
    ELSE IF side = "Buy"
         THEN ((current_price - entry_price) * 10000) \div entry_price
         ELSE ((entry_price - current_price) * 10000) \div entry_price

calculate_sl_price(entry_price, sl_level, side) ==
    IF side = "Buy"
    THEN (entry_price * (100 + sl_level)) \div 100
    ELSE (entry_price * (100 - sl_level)) \div 100

\* update_stop_loss, line 67: round(new_sl_price, 4), half to even
RoundTo4(price) ==
    LET q == price \div 10
        r == price % 10
    IN IF r < 5 \/ (r = 5 /\ q % 2 = 0) THEN q * 10 ELSE (q + 1) * 10

Max(a, b) == IF a >= b THEN a ELSE b

target_sl_level_Unrounded(pnl_percent) == Max(0, pnl_percent \div 100)

\* target_sl_level = max(0, int(pnl_percent // trailing_step) * trailing_step)
target_sl_level(pnl_percent) ==
    Max(0, (pnl_percent \div (trailing_step * 100)) * trailing_step)

NeedsRaiseAnyChange(target, current_level, pnl_percent) ==
    target # current_level /\ pnl_percent >= trailing_step * 100

\* line 112: if target_sl_level > state['current_sl_level'] and pnl_percent >= step
NeedsRaise(target, current_level, pnl_percent) ==
    target > current_level /\ pnl_percent >= trailing_step * 100

BreakEvenFirstOnlyOneStep(old_sl_level, new_sl_level) ==
    old_sl_level = 0 /\ new_sl_level = trailing_step

\* line 120: if old_sl_level == 0 and new_sl_level >= self.trailing_step
BreakEvenFirst(old_sl_level, new_sl_level) ==
    old_sl_level = 0 /\ new_sl_level >= trailing_step

LevelAfterNeverStored(ok, old_sl_level, new_sl_level) == old_sl_level

LevelAfterAlwaysStored(ok, old_sl_level, new_sl_level) == new_sl_level

\* lines 143-147: current_sl_level becomes the new level only if the request succeeded
LevelAfter(ok, old_sl_level, new_sl_level) ==
    IF ok THEN new_sl_level ELSE old_sl_level

\* initialize_position_state: the record created for a key not yet tracked
NewState(pos) ==
    [entry_price |-> pos.avgPrice,
     current_sl_level |-> 0,
     highest_pnl_percent |-> 0]

\* the stop-loss requests one position causes in one cycle, in order:
\* <<[price, ok]>>; ok1/ok2 are the exchange's answers
Requests(entry_price, side, old_sl_level, target, pnl_percent, ok1, ok2) ==
    IF ~NeedsRaise(target, old_sl_level, pnl_percent) THEN <<>>
    ELSE (IF BreakEvenFirst(old_sl_level, target)
          THEN <<[price |-> RoundTo4(calculate_sl_price(entry_price, 0, side)),
                  ok |-> ok1]>>
          ELSE <<>>)
         \o
         (IF target > 0
          THEN <<[price |-> RoundTo4(calculate_sl_price(entry_price, target, side)),
                  ok |-> ok2]>>
          ELSE <<>>)

\* stop on the exchange after the requests: each successful one replaces it
RECURSIVE ApplyRequests(_, _)
ApplyRequests(sl, reqs) ==
    IF reqs = <<>> THEN sl
    ELSE ApplyRequests(IF Head(reqs).ok THEN Head(reqs).price ELSE sl, Tail(reqs))

NoPoll ==
    [mark |-> -1, evaluated |-> FALSE, old_level |-> 0, sl_before |-> 0,
     reqs |-> <<>>, prev_mark |-> -1, prev_reqs |-> <<>>, first |-> FALSE]

NoPriceNever(current_price) == FALSE

\* line 88: current_price == 0 (the positions listed all have size > 0)
NoPrice(current_price) == current_price = 0

\* the body of the loop of check_positions for one position: ps is
\* positions_state and sl the position's stop on the exchange
EvaluatePosition(ps, sl, pos, mark, ok1, ok2) ==
    LET key == get_position_key(pos)
    IN
    IF NoPrice(mark)
    THEN [ps |-> ps, sl |-> sl, evaluated |-> FALSE, old_level |-> 0, reqs |-> <<>>]
    ELSE
      LET state0 == IF key \in DOMAIN ps THEN ps[key] ELSE NewState(pos)
          entry  == state0.entry_price
          pnl    == calculate_pnl_percent(entry, mark, pos.side)
          state1 == [state0 EXCEPT !.highest_pnl_percent = Max(@, pnl)]
          old    == state1.current_sl_level
          target == target_sl_level(pnl)
          reqs   == Requests(entry, pos.side, old, target, pnl, ok1, ok2)
          raise  == NeedsRaise(target, old, pnl)
          lvl0   == IF raise /\ BreakEvenFirst(old, target) THEN 0 ELSE old
          lvl    == IF raise /\ target > 0 THEN LevelAfter(ok2, lvl0, target) ELSE lvl0
          state2 == [state1 EXCEPT !.current_sl_level = lvl]
      IN [ps |-> (key :> state2) @@ ps, sl |-> ApplyRequests(sl, reqs),
          evaluated |-> TRUE, old_level |-> old, reqs |-> reqs]

\* no second position, no run loop observed
MultiIdle ==
    /\ other_pos = [symbol |-> "", side |-> "", avgPrice |-> 0]
    /\ other_sl = 0
    /\ other_poll = NoPoll

RunIdle ==
    /\ pm_pc = "sleeping"
    /\ pm_failure = "none"

NoPnlCall ==
    [applied |-> FALSE, entry_price |-> 0, current_price |-> 0, side |-> "",
     raised |-> FALSE, result |-> 0]

\* calculate_pnl_percent not called on its own, no AutoTrader running
CalcIdle == pnl_call = NoPnlCall

AutoIdle == open_signals = <<>>

-----------------------------------------------------------------------------
(* Staged take-profit: data *)

MaxCycles == 2

\* a NULL column / Python None
None == -1

TradeSides == {"LONG", "SHORT"}

TradeEntries == {1000}

\* the trade's volume and the exchange position's initial volume, in units
\* small enough that every 20% partial close of the run is a whole number
InitialVolume == 5^9

\* price moves in favour of the trade, in per mille of the entry price
Moves == {-50, 20, 100}

\* where a signal's first take-profit and its stop-loss may lie, in per mille
TakeProfitMoves == {100}

StopLossMoves == {-50}

PriceAt(entry, side, move) ==
    IF side = "LONG" THEN (entry * (1000 + move)) \div 1000
                     ELSE (entry * (1000 - move)) \div 1000

\* prices futures_get_market_price may report for the trade; 0 stands for an
\* unsuccessful fetch or a reported price of 0
PricesFor(t) == {0} \cup {PriceAt(t.entry_price, t.side, m) : m \in Moves}

NoCycle ==
    [price1 |-> -1, price2 |-> -1, pre_levels |-> {}, fired |-> <<>>,
     closes |-> <<>>, sl_reqs |-> <<>>]

TPIdle ==
    /\ trade = [id |-> 1, side |-> "LONG", entry_price |-> 1000,
                volume |-> 0, take_profit |-> None,
                stop_loss |-> None, status |-> "CLOSED"]
    /\ tp_records = <<>>
    /\ lbank_pos = [volume |-> 0, stop_loss |-> 0]
    /\ cycles = 0
    /\ be_requests = 0
    /\ last_cycle = NoCycle

-----------------------------------------------------------------------------
(* Entry gate: data *)

\* confidence in percent
Confidences == {30, 50, 59, 60, 70, 85}

\* moves of the first take profit of a signal, in thousandths of the entry
SignalTakeProfitMoves == {50, 100}

\* moves of a signal's stop loss, in thousandths of the entry
SignalStopLossMoves == {-50, -500}

\* available balance the exchange may report, in cents
Balances == {0, 50000}

NoProposal ==
    [kind |-> "none", side |-> "", recommendation |-> "", confidence |-> 0,
     entry |-> None, entries |-> 0, take_profit |-> None, stop_loss |-> None]

\* TradingSignal: entry is entries[0], entries is len(entries),
\* take_profit is take_profits[0]
Signals ==
    UNION {[kind : {"signal"}, side : {side}, recommendation : {""},
            confidence : Confidences, entry : {entry}, entries : {1, 2},
            take_profit : {None} \cup {PriceAt(entry, side, m) : m \in SignalTakeProfitMoves},
            stop_loss : {None} \cup {PriceAt(entry, side, m) : m \in SignalStopLossMoves}]
           : side \in TradeSides, entry \in TradeEntries}

\* ManualSignalInput.create_signal: one entry, confidence 1.0
ManualSignals ==
    {[s EXCEPT !.confidence = 100] : s \in {t \in Signals : t.entries = 1}}

\* line 321: side = "LONG" if analysis.recommendation == "BUY" else "SHORT"
SideOf(recommendation) == IF recommendation = "BUY" THEN "LONG" ELSE "SHORT"

\* MarketAnalysis: entry is entry_price, take_profit is take_profits[0]
Analyses ==
    UNION {[kind : {"analysis"}, side : {""}, recommendation : {rec},
            confidence : Confidences, entry : {entry}, entries : {1},
            take_profit : {None} \cup (IF rec = "HOLD" THEN {}
                                       ELSE {PriceAt(entry, SideOf(rec), 50)}),
            stop_loss : {None} \cup (IF rec = "HOLD" THEN {}
                                     ELSE {PriceAt(entry, SideOf(rec), -50)})]
           : rec \in {"BUY", "SELL", "HOLD"}, entry \in TradeEntries}

NoDecision ==
    [should_trade |-> FALSE, action |-> "", reason |-> "", confidence |-> 0,
     volume |-> 0, entry_price |-> None, take_profit |-> None, stop_loss |-> None]

\* no handler has run: no balance read, execute_trade not called
NoCall ==
    [balance |-> 0, open_before |-> 0, called |-> FALSE, requests |-> <<>>, rows |-> 0]

\* daily_performance: no row for today, or its pnl_percentage in hundredths of a percent
DailyPerformances ==
    {[exists |-> FALSE, pnl_percentage |-> 0]}
      \cup [exists : {TRUE}, pnl_percentage : {0, -999, -1000}]

GateIdle ==
    /\ proposal = NoProposal
    /\ decision = NoDecision
    /\ open_trades = 0
    /\ daily_perf = [exists |-> FALSE, pnl_percentage |-> 0]
    /\ last_call = NoCall

-----------------------------------------------------------------------------
(* RiskManager, TPManager, LBankTrader: pure helpers *)

\* config.TP_PERCENTAGES
tp_percentages == <<20, 20, 20, 20, 20>>

adjust_stop_loss_to_entry_SidesSwapped(entry_price, side, current_pnl_percent) ==
    IF current_pnl_percent >= 200
    THEN IF side = "LONG" THEN (entry_price * 999) \div 1000
                          ELSE (entry_price * 1001) \div 1000
    ELSE None

\* RiskManager.adjust_stop_loss_to_entry; PnL in hundredths of a percent
adjust_stop_loss_to_entry(entry_price, side, current_pnl_percent) ==
    IF current_pnl_percent >= 200
    THEN IF side = "LONG" THEN (entry_price * 1001) \div 1000
                          ELSE (entry_price * 999) \div 1000
    ELSE None

\* TPManager.calculate_tp_levels without target_profits: 2%, 4%, ... 10% from entry
calculate_tp_levels(entry, side) ==
    [i \in 1..5 |->
        [level |-> i,
         price |-> IF side = "LONG" THEN (entry * (1000 + 20 * i)) \div 1000
                                    ELSE (entry * (1000 - 20 * i)) \div 1000,
         percentage |-> tp_percentages[i]]]

\* TPManager._get_executed_tps.  The query runs on conn.cursor(), the driver's
\* default cursor, whose rows are tuples; dict(row) over such a row raises, the
\* bare except turns that into [].  With no rows the list is empty as well.
DictOfRowRaises(rows) == rows # <<>>

get_executed_tps(trade_id) ==
    LET rows == SelectSeq(tp_records, LAMBDA r : r.trade_id = trade_id)
    IN IF DictOfRowRaises(rows) THEN <<>> ELSE rows

\* the comparison of lines 548-551 and 422-425
PriceReached(side, current_price, level_price) ==
    IF side = "LONG" THEN current_price >= level_price
                     ELSE current_price <= level_price

\* LBankTrader.close_partial: the volume it asks the exchange to close
close_volume(current_volume, percentage) == (current_volume * percentage) \div 100

\* manage_open_trades, lines 408-411; PnL in hundredths of a percent
TradePnl(entry_price, current_price, side) ==
    IF side = "LONG"
    THEN ((current_price - entry_price) * 10000) \div entry_price
    ELSE ((entry_price - current_price) * 10000) \div entry_price

RECURSIVE SumPercentage(_)
SumPercentage(tps) ==
    IF tps = <<>> THEN 0 ELSE Head(tps).percentage + SumPercentage(Tail(tps))

-----------------------------------------------------------------------------
(* PositionManager: operations *)

TrailInit ==
    /\ positions_state = <<>>
    /\ exch_sl = 0
    /\ bybit_pos \in [symbol : {"BTCUSDT"}, side : Sides, avgPrice : Entries]
    /\ last_poll = NoPoll
    /\ restarts = 0
    /\ sl_at_restart = 0
    /\ pos_evaluated = FALSE
    /\ MultiIdle
    /\ RunIdle
    /\ CalcIdle
    /\ AutoIdle
    /\ TPIdle
    /\ GateIdle

\* one check_positions cycle over the open position
CheckPositions(mark, ok1, ok2) ==
    \E r \in {EvaluatePosition(positions_state, exch_sl, bybit_pos, mark, ok1, ok2)} :
        /\ positions_state' = r.ps
        /\ exch_sl' = r.sl
        /\ last_poll' = [mark |-> mark, evaluated |-> r.evaluated,
                         old_level |-> r.old_level, sl_before |-> exch_sl,
                         reqs |-> r.reqs, prev_mark |-> last_poll.mark,
                         prev_reqs |-> last_poll.reqs,
                         first |-> r.evaluated /\ ~pos_evaluated]
        /\ pos_evaluated' = (pos_evaluated \/ r.evaluated)
        /\ UNCHANGED <<bybit_pos, restarts, sl_at_restart>>

\* the exchange answers each request that is sent; ok1 answers the break-even
\* request and ok2 the level request of the cycle
AnswersFor(pos, mark, nth) ==
    LET sent == Len(EvaluatePosition(positions_state, 0, pos, mark, TRUE, TRUE).reqs)
    IN IF sent >= nth THEN BOOLEAN ELSE {TRUE}

Answers(mark, nth) == AnswersFor(bybit_pos, mark, nth)

\* one iteration of the loop of run, in a process that is not interrupted
Poll ==
    /\ \E mark \in Marks :
          \E ok1 \in Answers(mark, 2), ok2 \in Answers(mark, 1) :
              CheckPositions(mark, ok1, ok2)
    /\ UNCHANGED <<multi_vars, run_vars, tp_vars, gate_vars, calc_vars, auto_vars>>

\* the process is stopped and started again: __init__ builds an empty positions_state
Restart ==
    /\ restarts < MaxRestarts
    /\ restarts' = restarts + 1
    /\ sl_at_restart' =
          (LET key == get_position_key(bybit_pos) IN
           IF key \in DOMAIN positions_state
              /\ positions_state[key].current_sl_level > 0
           THEN exch_sl ELSE 0)
    /\ positions_state' = <<>>
    /\ last_poll' = NoPoll
    /\ UNCHANGED <<exch_sl, bybit_pos, pos_evaluated>>
    /\ UNCHANGED <<multi_vars, run_vars, tp_vars, gate_vars, calc_vars, auto_vars>>

TrailNext == Poll \/ Restart

SpecTrail == TrailInit /\ [][TrailNext]_vars

\* the position is closed and, some cycles later, a position of the same
\* symbol and side is opened: the exchange lists it with its own entry price
\* and without a stop; nothing in check_positions removes a key of
\* positions_state
Reopen ==
    /\ bybit_pos' \in [symbol : {bybit_pos.symbol}, side : {bybit_pos.side},
                        avgPrice : Entries]
    /\ exch_sl' = 0
    /\ pos_evaluated' = FALSE
    /\ last_poll' = NoPoll
    /\ UNCHANGED <<positions_state, restarts, sl_at_restart>>
    /\ UNCHANGED <<multi_vars, run_vars, tp_vars, gate_vars, calc_vars, auto_vars>>

LifeNext == Poll \/ Reopen

\* what can go wrong inside a cycle: the positions request fails
\* (get_all_positions then returns []), the response lacks or garbles a field
\* (float() or a subscript raises), or any other exception of the loop body
CycleFailures == {"exchange_error", "malformed_response", "processing_exception"}

LoopSurvivesOnlyExchangeErrors(failure) == failure = "exchange_error"

\* an exchange error never raises; the other failures are exceptions of class
\* Exception, caught by check_positions (line 160) and, were that handler to
\* raise, by run (line 189), which sleeps and goes round the loop again
LoopSurvives(failure) == failure \in CycleFailures

\* time.sleep returns: the next iteration calls check_positions
BeginCycle ==
    /\ pm_pc = "sleeping"
    /\ pm_pc' = "checking"
    /\ UNCHANGED <<pm_failure, trail_vars, multi_vars, tp_vars, gate_vars, calc_vars, auto_vars>>

\* check_positions runs to its end
FinishCycle ==
    /\ pm_pc = "checking"
    /\ \E mark \in Marks :
          \E ok1 \in Answers(mark, 2), ok2 \in Answers(mark, 1) :
              CheckPositions(mark, ok1, ok2)
    /\ pm_pc' = "sleeping"
    /\ pm_failure' = "none"
    /\ UNCHANGED <<multi_vars, tp_vars, gate_vars, calc_vars, auto_vars>>

\* check_positions fails before it evaluates the position
FailCycle ==
    /\ pm_pc = "checking"
    /\ \E failure \in CycleFailures :
          /\ pm_failure' = failure
          /\ pm_pc' = IF LoopSurvives(failure) THEN "sleeping" ELSE "crashed"
    /\ UNCHANGED <<trail_vars, multi_vars, tp_vars, gate_vars, calc_vars, auto_vars>>

\* KeyboardInterrupt during time.sleep(interval_seconds): line 186, break
InterruptSleep ==
    /\ pm_pc = "sleeping"
    /\ pm_pc' = "stopped"
    /\ UNCHANGED <<pm_failure, trail_vars, multi_vars, tp_vars, gate_vars, calc_vars, auto_vars>>

\* KeyboardInterrupt while check_positions is running, before the n+1-th
\* request it would send (for instance in the time.sleep(1) of line 131
\* between the two requests): not an Exception, so neither update_stop_loss
\* nor the handler of line 160 catches it; it reaches line 186 of run
InterruptCycle ==
    /\ pm_pc = "checking"
    /\ \E mark \in Marks :
          \E ok1 \in Answers(mark, 2) :
          \E r \in {EvaluatePosition(positions_state, exch_sl, bybit_pos, mark, ok1, TRUE)} :
          \E n \in 0..(Len(r.reqs) - 1) :
              LET sent == SubSeq(r.reqs, 1, n)
                  key  == get_position_key(bybit_pos)
              IN /\ positions_state' = [r.ps EXCEPT ![key].current_sl_level = r.old_level]
                 /\ exch_sl' = ApplyRequests(exch_sl, sent)
                 /\ last_poll' = [mark |-> mark, evaluated |-> TRUE,
                                  old_level |-> r.old_level, sl_before |-> exch_sl,
                                  reqs |-> sent, prev_mark |-> last_poll.mark,
                                  prev_reqs |-> last_poll.reqs,
                                  first |-> ~pos_evaluated]
                 /\ pos_evaluated' = TRUE
    /\ pm_pc' = "stopped"
    /\ UNCHANGED <<pm_failure, bybit_pos, restarts, sl_at_restart, multi_vars, tp_vars, gate_vars, calc_vars, auto_vars>>

RunNext == BeginCycle \/ FinishCycle \/ FailCycle \/ InterruptSleep \/ InterruptCycle

SpecRun == TrailInit /\ [][RunNext]_vars

\* time.sleep(interval_seconds) and time.sleep(30) return
SpecRunFair == SpecRun /\ WF_vars(BeginCycle)

ContinuesAfterOnlySuccess(reqs) == \A i \in 1..Len(reqs) : reqs[i].ok

\* update_stop_loss turns a rejected request and any exception of the call
\* into False, so whatever the requests of a position answered, the loop of
\* check_positions goes on to the next position
ContinuesAfter(reqs) == TRUE

CycleLog(mark, sl, r) ==
    [NoPoll EXCEPT !.mark = mark, !.evaluated = r.evaluated, !.old_level = r.old_level,
                   !.sl_before = sl, !.reqs = r.reqs]

\* one check_positions cycle over the list <<bybit_pos, other_pos>>
CheckAllPositions(mark, ok1, ok2, other_mark, other_ok1, other_ok2) ==
    \E r \in {EvaluatePosition(positions_state, exch_sl, bybit_pos, mark, ok1, ok2)} :
    \E o \in {IF ContinuesAfter(r.reqs)
               THEN EvaluatePosition(r.ps, other_sl, other_pos,
                                     other_mark, other_ok1, other_ok2)
               ELSE [ps |-> r.ps, sl |-> other_sl, evaluated |-> FALSE,
                     old_level |-> 0, reqs |-> <<>>]} :
        /\ positions_state' = o.ps
        /\ exch_sl' = r.sl
        /\ other_sl' = o.sl
        /\ last_poll' = CycleLog(mark, exch_sl, r)
        /\ other_poll' = CycleLog(other_mark, other_sl, o)
        /\ pos_evaluated' = (pos_evaluated \/ r.evaluated)
        /\ UNCHANGED <<bybit_pos, other_pos, restarts, sl_at_restart>>

PollAll ==
    /\ \E mark, other_mark \in MultiMarks :
          \E ok1 \in AnswersFor(bybit_pos, mark, 2), ok2 \in AnswersFor(bybit_pos, mark, 1),
             other_ok1 \in AnswersFor(other_pos, other_mark, 2),
             other_ok2 \in AnswersFor(other_pos, other_mark, 1) :
              CheckAllPositions(mark, ok1, ok2, other_mark, other_ok1, other_ok2)
    /\ UNCHANGED <<run_vars, tp_vars, gate_vars, calc_vars, auto_vars>>

MultiInit ==
    /\ positions_state = <<>>
    /\ exch_sl = 0
    /\ bybit_pos \in [symbol : {"BTCUSDT"}, side : Sides, avgPrice : Entries]
    /\ last_poll = NoPoll
    /\ restarts = 0
    /\ sl_at_restart = 0
    /\ pos_evaluated = FALSE
    /\ other_pos \in [symbol : {"ETHUSDT"}, side : Sides, avgPrice : Entries]
    /\ other_sl = 0
    /\ other_poll = NoPoll
    /\ RunIdle
    /\ CalcIdle
    /\ AutoIdle
    /\ TPIdle
    /\ GateIdle

MultiNext == PollAll

SpecMulti == MultiInit /\ [][MultiNext]_vars

SpecLife == TrailInit /\ [][LifeNext]_vars

\* the same manager on a low-priced symbol
LowInit ==
    /\ positions_state = <<>>
    /\ exch_sl = 0
    /\ bybit_pos \in [symbol : {"SPELLUSDT"}, side : Sides, avgPrice : LowEntries]
    /\ last_poll = NoPoll
    /\ restarts = 0
    /\ sl_at_restart = 0
    /\ pos_evaluated = FALSE
    /\ MultiIdle
    /\ RunIdle
    /\ CalcIdle
    /\ AutoIdle
    /\ TPIdle
    /\ GateIdle

PollLow ==
    /\ \E mark \in LowMarks :
          \E ok1 \in Answers(mark, 2), ok2 \in Answers(mark, 1) :
              CheckPositions(mark, ok1, ok2)
    /\ UNCHANGED <<multi_vars, run_vars, tp_vars, gate_vars, calc_vars, auto_vars>>

\* the position is closed and a new one opened on the same symbol and side
ReopenLow ==
    /\ bybit_pos' \in [symbol : {bybit_pos.symbol}, side : {bybit_pos.side},
                        avgPrice : LowEntries]
    /\ exch_sl' = 0
    /\ pos_evaluated' = FALSE
    /\ last_poll' = NoPoll
    /\ UNCHANGED <<positions_state, restarts, sl_at_restart>>
    /\ UNCHANGED <<multi_vars, run_vars, tp_vars, gate_vars, calc_vars, auto_vars>>

LowNext == PollLow \/ ReopenLow

SpecLow == LowInit /\ [][LowNext]_vars

\* entry and mark prices calculate_pnl_percent is called with on its own
PnlEntries == {-2000, -1000, 0, 1000, 2000}

PnlMarks == Marks \cup {2000, 3000}

\* lines 44-52: the function has no raise statement; a zero entry returns 0
\* (lines 46-47) and any other entry goes through the division
RaisesInvalidInput(entry_price) == FALSE

\* PositionManager.calculate_pnl_percent called with any entry price
CalculatePnl ==
    /\ \E entry_price \in PnlEntries, current_price \in PnlMarks, side \in Sides :
          pnl_call' = [applied |-> TRUE, entry_price |-> entry_price,
                       current_price |-> current_price, side |-> side,
                       raised |-> RaisesInvalidInput(entry_price),
                       result |-> calculate_pnl_percent(entry_price, current_price, side)]
    /\ UNCHANGED <<trail_vars, multi_vars, run_vars, tp_vars, gate_vars, auto_vars>>

\* nothing but the component looked at is running
AloneInit ==
    /\ TrailInit
    /\ bybit_pos = [symbol |-> "BTCUSDT", side |-> "Buy", avgPrice |-> 1000]

PnlNext == CalculatePnl

SpecPnl == AloneInit /\ [][PnlNext]_vars

-----------------------------------------------------------------------------
(* Staged take-profit: operations *)

\* answers of the exchange to one call of the trader: "nofetch" is a failed
\* futures_get_positions (nothing is sent after it), "rejected" a request that
\* was sent and failed
CallAnswers == {"ok", "rejected", "nofetch"}

\* LBankTrader.close_partial
close_partial(pos, percentage, answer) ==
    IF answer = "nofetch" \/ pos.volume = 0
    THEN [success |-> FALSE, sent |-> FALSE, volume |-> 0, pos |-> pos]
    ELSE LET cv == close_volume(pos.volume, percentage)
         IN [success |-> answer = "ok", sent |-> TRUE, volume |-> cv,
             pos |-> IF answer = "ok" THEN [pos EXCEPT !.volume = @ - cv] ELSE pos]

\* LBankTrader.move_stop_to_entry
move_stop_to_entry(pos, price, answer) ==
    IF answer = "nofetch" \/ pos.volume = 0
    THEN [success |-> FALSE, sent |-> FALSE, pos |-> pos]
    ELSE [success |-> answer = "ok", sent |-> TRUE,
          pos |-> IF answer = "ok" THEN [pos EXCEPT !.stop_loss = price] ELSE pos]

\* the state a job works on: exchange position, tp_records, trade status and the log
JobState(price1, price2) ==
    [pos |-> lbank_pos, recs |-> tp_records, status |-> trade.status, be |-> be_requests,
     log |-> [NoCycle EXCEPT !.price1 = price1, !.price2 = price2,
                             !.pre_levels = {tp_records[i].tp_level : i \in 1..Len(tp_records)}]]

\* every call of the trader is logged; sent tells whether a request went out
LogStop(js, price, res, by) ==
    [js EXCEPT !.log.sl_reqs = Append(@, [price |-> price, sent |-> res.sent,
                                          ok |-> res.success, by |-> by]),
               !.be = IF res.sent THEN @ + 1 ELSE @,
               !.pos = res.pos]

LogClose(js, level, res, by) ==
    [js EXCEPT !.log.closes = Append(@, [tp_level |-> level, volume |-> res.volume,
                                         before |-> js.pos.volume, sent |-> res.sent,
                                         ok |-> res.success, by |-> by]),
               !.pos = res.pos]

\* TPManager.check_and_execute_tp(trade, current_price)
TpDue(current_price) ==
    LET next_tp_level == Len(get_executed_tps(trade.id)) + 1
    IN /\ next_tp_level <= 5
       /\ PriceReached(trade.side, current_price,
                       calculate_tp_levels(trade.entry_price, trade.side)[next_tp_level].price)

check_and_execute_tp(js, current_price, a_tp, a_be) ==
    LET executed_tps  == get_executed_tps(trade.id)
        next_tp_level == Len(executed_tps) + 1
        current_tp    == calculate_tp_levels(trade.entry_price, trade.side)[next_tp_level]
        result        == close_partial(js.pos, current_tp.percentage, a_tp)
        js1           == LogClose(js, next_tp_level, result, "tp_manager")
        remaining     == (trade.volume * (100 - SumPercentage(executed_tps))) \div 100
        closed_volume == (remaining * current_tp.percentage) \div 100
        js2           == [js1 EXCEPT
                            !.recs = Append(@, [trade_id |-> trade.id,
                                                tp_level |-> next_tp_level,
                                                volume_closed |-> closed_volume,
                                                percentage |-> current_tp.percentage]),
                            !.log.fired = Append(@, next_tp_level)]
    IN IF ~TpDue(current_price) THEN js
       ELSE IF ~result.success THEN js1
       ELSE IF next_tp_level = 1
            THEN LogStop(js2, trade.entry_price,
                         move_stop_to_entry(js2.pos, trade.entry_price, a_be), "tp_manager")
            ELSE js2

\* TradingStrategy._process_tp
process_tp(js, a_ptp) ==
    LET result == close_partial(js.pos, 20, a_ptp)
        js1    == LogClose(js, 1, result, "process_tp")
    IN IF ~result.success THEN js1
       ELSE [js1 EXCEPT !.recs = Append(@, [trade_id |-> trade.id, tp_level |-> 1,
                                            volume_closed |-> (trade.volume * 20) \div 100,
                                            percentage |-> 20])]

\* TradingStrategy._close_trade_sl: the answer of the close request is not looked at
close_trade_sl(js, a_close) ==
    [js EXCEPT !.status = "CLOSED",
               !.pos = IF a_close = "ok" THEN [volume |-> 0, stop_loss |-> 0] ELSE @]

ProcessTpDue(current_price) ==
    /\ current_price # 0
    /\ trade.take_profit # None
    /\ trade.take_profit > 0
    /\ PriceReached(trade.side, current_price, trade.take_profit)

AdjustDue(current_price) ==
    /\ current_price # 0
    /\ trade.take_profit # None
    /\ TradePnl(trade.entry_price, current_price, trade.side) >= 200

CloseDue(current_price) ==
    /\ current_price # 0
    /\ trade.take_profit # None
    /\ trade.stop_loss # None
    /\ trade.stop_loss > 0
    /\ IF trade.side = "LONG" THEN current_price <= trade.stop_loss
                              ELSE current_price >= trade.stop_loss

\* TradingStrategy.manage_open_trades for the open trade.  float(None) on a
\* NULL take_profit (line 420) or stop_loss (line 437) raises and ends the job.
manage_open_trades(js, current_price, a_ptp, a_adj, a_close) ==
    LET pnl_pct == TradePnl(trade.entry_price, current_price, trade.side)
        js1 == IF ProcessTpDue(current_price) THEN process_tp(js, a_ptp) ELSE js
        new_sl == adjust_stop_loss_to_entry(trade.entry_price, trade.side, pnl_pct)
        js2 == IF AdjustDue(current_price) /\ new_sl # None /\ new_sl # 0
               THEN LogStop(js1, new_sl, move_stop_to_entry(js1.pos, new_sl, a_adj),
                            "manage_open_trades")
               ELSE js1
        js3 == IF CloseDue(current_price) THEN close_trade_sl(js2, a_close) ELSE js2
    IN IF current_price = 0 \/ trade.take_profit = None THEN js
       ELSE IF trade.stop_loss = None THEN js2
       ELSE js3

\* KriptoBot._manage_trades_job
manage_trades_job(price1, price2, a_tp, a_be, a_ptp, a_adj, a_close) ==
    LET js0 == JobState(price1, price2)
        js1 == IF price1 = 0 THEN js0 ELSE check_and_execute_tp(js0, price1, a_tp, a_be)
    IN IF trade.status # "OPEN" THEN [js0 EXCEPT !.log = NoCycle]
       ELSE manage_open_trades(js1, price2, a_ptp, a_adj, a_close)

\* a call that is not made has no answer to choose
AnswersIf(made) == IF made THEN CallAnswers ELSE {"ok"}

ManageTradesJob ==
    /\ cycles < MaxCycles
    /\ \E price1, price2 \in (IF trade.status = "OPEN" THEN PricesFor(trade) ELSE {0}) :
         LET open == trade.status = "OPEN"
             tp   == open /\ price1 # 0 /\ TpDue(price1)
         IN \E a_tp \in AnswersIf(tp) :
            \E a_be \in AnswersIf(tp /\ a_tp = "ok") :
            \E a_ptp \in AnswersIf(open /\ ProcessTpDue(price2)) :
            \E a_adj \in AnswersIf(open /\ AdjustDue(price2)) :
            \E a_close \in AnswersIf(open /\ CloseDue(price2)) \ {"nofetch"} :
              \E js \in {manage_trades_job(price1, price2, a_tp, a_be, a_ptp, a_adj, a_close)} :
                 /\ lbank_pos' = js.pos
                 /\ tp_records' = js.recs
                 /\ trade' = [trade EXCEPT !.status = js.status]
                 /\ be_requests' = js.be
                 /\ last_cycle' = js.log
    /\ cycles' = cycles + 1
    /\ UNCHANGED <<trail_vars, multi_vars, run_vars, gate_vars, calc_vars, auto_vars>>

TPInit ==
    /\ \E side \in TradeSides, entry \in TradeEntries :
       \E tp \in {None} \cup {PriceAt(entry, side, m) : m \in TakeProfitMoves},
          sl \in {None} \cup {PriceAt(entry, side, m) : m \in StopLossMoves} :
         trade = [id |-> 1, side |-> side, entry_price |-> entry,
                  volume |-> InitialVolume, take_profit |-> tp,
                  stop_loss |-> sl, status |-> "OPEN"]
    /\ tp_records = <<>>
    /\ lbank_pos = [volume |-> InitialVolume, stop_loss |-> 0]
    /\ cycles = 0
    /\ be_requests = 0
    /\ last_cycle = NoCycle
    /\ positions_state = <<>>
    /\ exch_sl = 0
    /\ bybit_pos = [symbol |-> "BTCUSDT", side |-> "Buy", avgPrice |-> 1000]
    /\ last_poll = NoPoll
    /\ restarts = 0
    /\ sl_at_restart = 0
    /\ pos_evaluated = FALSE
    /\ MultiIdle
    /\ RunIdle
    /\ CalcIdle
    /\ AutoIdle
    /\ GateIdle

TPNext == ManageTradesJob

SpecTP == TPInit /\ [][TPNext]_vars

-----------------------------------------------------------------------------
(* Both managers side by side *)

\* a check_positions cycle of the trailing manager, counted like a job
PollBounded ==
    /\ cycles < MaxCycles
    /\ \E mark \in Marks :
          \E ok1 \in Answers(mark, 2), ok2 \in Answers(mark, 1) :
              CheckPositions(mark, ok1, ok2)
    /\ cycles' = cycles + 1
    /\ UNCHANGED <<trade, tp_records, lbank_pos, be_requests, last_cycle>>
    /\ UNCHANGED <<multi_vars, run_vars, gate_vars, calc_vars, auto_vars>>

\* a LONG trade with take_profit and stop_loss, and a Buy position
BothInit ==
    /\ TPInit
    /\ trade.side = "LONG"
    /\ trade.take_profit # None
    /\ trade.stop_loss # None

BothNext == PollBounded \/ ManageTradesJob

SpecBoth == BothInit /\ [][BothNext]_vars

-----------------------------------------------------------------------------
(* Entry gate: operations *)

max_open_trades == 5

max_daily_loss_percent == 10

max_single_trade_risk == 2

RISK_PERCENTAGE == 4

Min(a, b) == IF a <= b THEN a ELSE b

can_open_trade_CountOver(n_open, perf) ==
    IF n_open > max_open_trades
    THEN [ok |-> FALSE, reason |-> "max_open_trades"]
    ELSE IF perf.exists /\ perf.pnl_percentage <= -(max_daily_loss_percent * 100)
         THEN [ok |-> FALSE, reason |-> "daily_loss"]
         ELSE [ok |-> TRUE, reason |-> "OK"]

can_open_trade_LossFirst(n_open, perf) ==
    IF perf.exists /\ perf.pnl_percentage < -(max_daily_loss_percent * 100)
    THEN [ok |-> FALSE, reason |-> "daily_loss"]
    ELSE IF n_open >= max_open_trades
         THEN [ok |-> FALSE, reason |-> "max_open_trades"]
         ELSE [ok |-> TRUE, reason |-> "OK"]

\* RiskManager.can_open_trade
can_open_trade(n_open, perf) ==
    IF n_open >= max_open_trades
    THEN [ok |-> FALSE, reason |-> "max_open_trades"]
    ELSE IF perf.exists /\ perf.pnl_percentage <= -(max_daily_loss_percent * 100)
         THEN [ok |-> FALSE, reason |-> "daily_loss"]
         ELSE [ok |-> TRUE, reason |-> "OK"]

calculate_position_size_Uncapped(balance, stop_loss_percent) ==
    (balance * max_single_trade_risk * 100) \div stop_loss_percent

\* RiskManager.calculate_position_size: balance and result in cents,
\* stop_loss_percent in hundredths of a percent
calculate_position_size(balance, stop_loss_percent) ==
    LET position_size == (balance * max_single_trade_risk * 100) \div stop_loss_percent
        max_position  == (balance * 5) \div 100
    IN Min(position_size, max_position)

\* RiskManager.validate_risk_reward: rr_ratio >= min_risk_reward (1.5)
validate_risk_reward(entry, stop_loss, take_profit, side) ==
    LET risk   == IF side = "LONG" THEN entry - stop_loss ELSE stop_loss - entry
        reward == IF side = "LONG" THEN take_profit - entry ELSE entry - take_profit
    IN IF risk <= 0 THEN FALSE ELSE reward * 10 >= risk * 15

Skip(reason, confidence) ==
    [should_trade |-> FALSE, action |-> "SKIP", reason |-> reason,
     confidence |-> confidence, volume |-> 0, entry_price |-> None,
     take_profit |-> None, stop_loss |-> None]

Abs(x) == IF x < 0 THEN -x ELSE x

\* lines 221-223: 3% unless the signal has a stop, in hundredths of a percent
stop_loss_pct(signal) ==
    IF signal.entry # None /\ signal.stop_loss # None
    THEN (Abs(signal.entry - signal.stop_loss) * 10000) \div signal.entry
    ELSE 300

\* TradingStrategy.process_telegram_signal: balance is the exchange's answer
\* to get_available_balance, prices_ok tells whether the klines were fetched,
\* valid and gemini_confidence are validate_signal's answer
process_telegram_signal(signal, balance, prices_ok, valid, gemini_confidence) ==
    LET can == can_open_trade(open_trades, daily_perf)
    IN IF ~can.ok THEN Skip(can.reason, 0)
       ELSE IF prices_ok /\ signal.entry # None /\ (~valid \/ gemini_confidence < 50)
            THEN Skip("gemini_rejected", gemini_confidence)
       ELSE IF /\ signal.entry # None
               /\ signal.take_profit # None
               /\ signal.stop_loss # None
               /\ ~validate_risk_reward(signal.entry, signal.stop_loss,
                                        signal.take_profit, signal.side)
            THEN Skip("low_risk_reward", signal.confidence)
       ELSE [should_trade |-> TRUE, action |-> "OPEN_" \o signal.side,
             reason |-> "approved", confidence |-> signal.confidence,
             volume |-> calculate_position_size(balance, stop_loss_pct(signal)),
             entry_price |-> signal.entry, take_profit |-> signal.take_profit,
             stop_loss |-> signal.stop_loss]

\* line 284: if analysis.confidence < 0.6
LowConfidence(confidence) == confidence < 60

\* TradingStrategy.process_gemini_analysis
process_gemini_analysis(analysis, balance) ==
    LET can == can_open_trade(open_trades, daily_perf)
    IN IF analysis.recommendation = "HOLD" THEN Skip("hold", analysis.confidence)
       ELSE IF LowConfidence(analysis.confidence)
            THEN Skip("low_confidence", analysis.confidence)
       ELSE IF ~can.ok THEN Skip(can.reason, analysis.confidence)
       ELSE [should_trade |-> TRUE,
             action |-> "OPEN_" \o SideOf(analysis.recommendation),
             reason |-> "approved", confidence |-> analysis.confidence,
             volume |-> calculate_position_size(balance, 300),
             entry_price |-> analysis.entry, take_profit |-> analysis.take_profit,
             stop_loss |-> analysis.stop_loss]

\* LBankTrader.calculate_position_size, in cents
lbank_calculate_position_size(balance) == (balance * RISK_PERCENTAGE) \div 100

\* LBankTrader.open_trade: the volumes of the orders it sends for a list of
\* n_entries entry prices
open_trade(n_entries, balance) ==
    LET total_position == lbank_calculate_position_size(balance)
    IN IF n_entries > 1
       THEN [i \in 1..n_entries |-> total_position \div n_entries]
       ELSE <<total_position>>

\* line 356: entries = [decision.entry_price] if decision.entry_price else None
EntriesPassed(d) == IF d.entry_price # None THEN 1 ELSE 0

ExecutesAnyDecision(d) == TRUE

\* lines 342-344: if not decision.should_trade: return
Executes(d) == d.should_trade

\* TradingStrategy.execute_trade: the orders sent and the number of trade rows
\* saved; succeeded holds the indices of the orders the exchange accepts
execute_trade(d, balance, succeeded) ==
    IF ~Executes(d) THEN [requests |-> <<>>, rows |-> 0]
    ELSE LET orders == open_trade(EntriesPassed(d), balance)
         IN [requests |-> orders,
             rows |-> Cardinality(succeeded \cap DOMAIN orders)]

\* the exchange's possible answers to the orders execute_trade would send
OrderAnswers(d, balance, called) ==
    IF called /\ Executes(d) THEN SUBSET (DOMAIN open_trade(EntriesPassed(d), balance))
                             ELSE {{}}

\* an entry handler has decided on p with balance b read from the exchange;
\* called tells whether it goes on to call execute_trade
Decide(p, d, b, called) ==
    /\ proposal' = p
    /\ decision' = d
    /\ \E succeeded \in OrderAnswers(d, b, called) :
       \E r \in {IF called THEN execute_trade(d, b, succeeded)
                           ELSE [requests |-> <<>>, rows |-> 0]} :
          /\ open_trades' = open_trades + r.rows
          /\ last_call' = [balance |-> b, open_before |-> open_trades,
                           called |-> called, requests |-> r.requests,
                           rows |-> r.rows]
    /\ UNCHANGED daily_perf

\* the event loop runs one handler at a time: process_* and execute_trade
\* are called without an await in between
NoHandlerRunning == proposal = NoProposal

\* validate_signal's answers
Validations == BOOLEAN \X {40, 50, 90}

\* what the exchange and Gemini answer while a signal is processed: klines
\* fetched or not, and validate_signal's answer when it is called
SignalAnswers(signal) ==
    IF ~can_open_trade(open_trades, daily_perf).ok THEN {<<FALSE, TRUE, 90>>}
    ELSE {<<FALSE, TRUE, 90>>} \cup {<<TRUE, v[1], v[2]>> : v \in Validations}

\* process_telegram_signal followed by "if decision.should_trade: execute_trade"
HandleSignal(signal) ==
    \E b \in Balances, a \in SignalAnswers(signal) :
    \E d \in {process_telegram_signal(signal, b, a[1], a[2], a[3])} :
       Decide(signal, d, b, d.should_trade)

\* KriptoBot._on_new_signal: the listener hands over signals of confidence >= 0.5
OnNewSignal ==
    /\ NoHandlerRunning
    /\ \E signal \in {s \in Signals : s.confidence >= 50} : HandleSignal(signal)
    /\ UNCHANGED <<trail_vars, multi_vars, run_vars, tp_vars, calc_vars, auto_vars>>

\* KriptoBot._check_signals_job, for one scanned signal of confidence >= 0.6
CheckSignalsJob ==
    /\ NoHandlerRunning
    /\ \E signal \in {s \in Signals : s.confidence >= 60} : HandleSignal(signal)
    /\ UNCHANGED <<trail_vars, multi_vars, run_vars, tp_vars, calc_vars, auto_vars>>

\* KriptoBot.manual_signal
ManualSignal ==
    /\ NoHandlerRunning
    /\ \E signal \in ManualSignals : HandleSignal(signal)
    /\ UNCHANGED <<trail_vars, multi_vars, run_vars, tp_vars, calc_vars, auto_vars>>

\* KriptoBot._gemini_analysis_job, for one coin
GeminiAnalysisJob ==
    /\ NoHandlerRunning
    /\ \E analysis \in Analyses, b \in Balances :
       \E d \in {process_gemini_analysis(analysis, b)} :
          Decide(analysis, d, b, d.should_trade /\ d.confidence >= 70)
    /\ UNCHANGED <<trail_vars, multi_vars, run_vars, tp_vars, calc_vars, auto_vars>>

\* KriptoBot._scalper_job, for the best opportunity
ScalperJob ==
    /\ NoHandlerRunning
    /\ \E analysis \in {a \in Analyses : a.recommendation # "HOLD" /\ a.confidence >= 70},
          b \in Balances :
       \E d \in {process_gemini_analysis(analysis, b)} :
          Decide(analysis, d, b, d.should_trade)
    /\ UNCHANGED <<trail_vars, multi_vars, run_vars, tp_vars, calc_vars, auto_vars>>

\* the handler returns to the event loop: its signal and decision are gone,
\* the trades table keeps what it saved
HandlerReturns ==
    /\ proposal # NoProposal
    /\ proposal' = NoProposal
    /\ decision' = NoDecision
    /\ last_call' = NoCall
    /\ UNCHANGED <<open_trades, daily_perf, trail_vars, multi_vars, run_vars, tp_vars, calc_vars, auto_vars>>

GateInit ==
    /\ proposal = NoProposal
    /\ decision = NoDecision
    /\ last_call = NoCall
    /\ open_trades \in {0, max_open_trades - 1, max_open_trades}
    /\ daily_perf \in DailyPerformances
    /\ positions_state = <<>>
    /\ exch_sl = 0
    /\ bybit_pos = [symbol |-> "BTCUSDT", side |-> "Buy", avgPrice |-> 1000]
    /\ last_poll = NoPoll
    /\ restarts = 0
    /\ sl_at_restart = 0
    /\ pos_evaluated = FALSE
    /\ MultiIdle
    /\ RunIdle
    /\ CalcIdle
    /\ AutoIdle
    /\ TPIdle

GateNext ==
    \/ OnNewSignal
    \/ CheckSignalsJob
    \/ ManualSignal
    \/ GeminiAnalysisJob
    \/ ScalperJob
    \/ HandlerReturns

SpecGate == GateInit /\ [][GateNext]_vars

\* execute_trade called on whatever process_telegram_signal returned
ExecuteSignalDecision ==
    /\ NoHandlerRunning
    /\ \E signal \in Signals, b \in Balances :
       \E a \in SignalAnswers(signal) :
       \E d \in {process_telegram_signal(signal, b, a[1], a[2], a[3])} :
          Decide(signal, d, b, TRUE)
    /\ UNCHANGED <<trail_vars, multi_vars, run_vars, tp_vars, calc_vars, auto_vars>>

\* execute_trade called on whatever process_gemini_analysis returned
ExecuteAnalysisDecision ==
    /\ NoHandlerRunning
    /\ \E analysis \in Analyses, b \in Balances :
       \E d \in {process_gemini_analysis(analysis, b)} :
          Decide(analysis, d, b, TRUE)
    /\ UNCHANGED <<trail_vars, multi_vars, run_vars, tp_vars, calc_vars, auto_vars>>

ExecuteNext == ExecuteSignalDecision \/ ExecuteAnalysisDecision \/ HandlerReturns

SpecExecute == GateInit /\ [][ExecuteNext]_vars

-----------------------------------------------------------------------------------------------------------------------------------------------------
(* AutoTrader *)

max_open_positions == 5

MaxSignals == 2

AutoSymbols == {"BTCUSDT", "ETHUSDT", "SOLUSDT", "XRPUSDT", "DOGEUSDT", "ADAUSDT"}

\* a signal of Gemini's answer, with what the outside world answers if the
\* signal gets that far: "no_price" (get_current_price returns 0),
\* "send_failed" or "sent" (send_telegram_signal)
AutoSignals ==
    [symbol : AutoSymbols, confidence : {8}, answer : {"no_price", "send_failed", "sent"}]
      \cup [symbol : AutoSymbols, confidence : {6}, answer : {"sent"}]

\* analysis.get('signals', []): any list of up to MaxSignals signals
SignalLists == UNION {[1..n -> AutoSignals] : n \in 0..MaxSignals}

\* the loop of execute_signals, lines 178-247
RECURSIVE SendSignals(_, _)
SendSignals(open, signals) ==
    IF signals = <<>> THEN open
    ELSE LET signal == Head(signals)
             sent == /\ signal.confidence >= 7
                     /\ \A k \in 1..Len(open) : open[k] # signal.symbol
                     /\ signal.answer = "sent"
         IN SendSignals(IF sent THEN Append(open, signal.symbol) ELSE open,
                        Tail(signals))

\* AutoTrader.execute_signals
execute_signals(open, signals) ==
    IF signals = <<>> THEN open
    ELSE IF Len(open) >= max_open_positions THEN open
    ELSE SendSignals(open, signals)

\* AutoTrader.run_analysis
RunAnalysis ==
    /\ \E signals \in SignalLists :
          open_signals' = execute_signals(open_signals, signals)
    /\ UNCHANGED <<trail_vars, multi_vars, run_vars, tp_vars, gate_vars, calc_vars>>

\* AutoTrader.clear_signals
ClearSignals ==
    /\ open_signals' = <<>>
    /\ UNCHANGED <<trail_vars, multi_vars, run_vars, tp_vars, gate_vars, calc_vars>>

AutoNext == RunAnalysis \/ ClearSignals

SpecAuto == AloneInit /\ [][AutoNext]_vars

-----
(* Trailing manager: properties *)

Side == bybit_pos.side

Prices(reqs) == [i \in 1..Len(reqs) |-> reqs[i].price]

AppliedPrices(reqs) == Prices(SelectSeq(reqs, LAMBDA r : r.ok))

AllOk(reqs) == \A i \in 1..Len(reqs) : reqs[i].ok

\* never moves against the position: up for Buy, down for Sell
NotBackward(side, from, to) == IF side = "Buy" THEN to >= from ELSE to <= from

Ratchets(side, seq) == \A i \in 1..(Len(seq) - 1) : NotBackward(side, seq[i], seq[i + 1])

\* C1: within one process and for one tracked position, the stop prices
\* applied on the exchange never move backward: every stop a cycle applies is
\* at least (Buy) / at most (Sell) the stop applied before it, whichever
\* requests succeed or fail.
C1_MonotonicStop ==
    restarts = 0 =>
        Ratchets(Side, (IF last_poll.sl_before = 0 THEN <<>> ELSE <<last_poll.sl_before>>)
                       \o AppliedPrices(last_poll.reqs))

\* a cycle applied a stop on top of an earlier level stop
C1_Witness ==
    /\ restarts = 0
    /\ last_poll.sl_before # 0
    /\ last_poll.old_level > 0
    /\ AppliedPrices(last_poll.reqs) # <<>>

\* C2: after a restart, no cycle sends a stop-loss request whose price is
\* behind the level stop that was in force when the process was restarted.
C2_NoBackwardAfterRestart ==
    (restarts > 0 /\ sl_at_restart # 0) =>
        \A i \in 1..Len(last_poll.reqs) :
            NotBackward(Side, sl_at_restart, last_poll.reqs[i].price)

C9_IdempotentRepoll ==
    (/\ last_poll.evaluated
     /\ last_poll.prev_mark = last_poll.mark
     /\ AllOk(last_poll.prev_reqs))
    => /\ last_poll.reqs = <<>>
       /\ positions_state[get_position_key(bybit_pos)].current_sl_level
             = last_poll.old_level

\* the same mark twice in a row, the first cycle having updated the stop
C9_Witness ==
    /\ last_poll.evaluated
    /\ last_poll.prev_mark = last_poll.mark
    /\ last_poll.prev_reqs # <<>>
    /\ AllOk(last_poll.prev_reqs)

\* C10: the stop trails one step behind the profit step (start banner): after
\* a cycle of a Buy position that observed its highest PnL so far, in
\* [20,40), [40,60) or [60,80), and whose requests all succeeded, the stop in
\* force is the level one step below the PnL's step (entry, +20%, +40%).
C10_TrailsOneStepBehind ==
    LET pnl == calculate_pnl_percent(bybit_pos.avgPrice, last_poll.mark, Side)
        st  == positions_state[get_position_key(bybit_pos)]
    IN (/\ Side = "Buy"
        /\ last_poll.evaluated
        /\ pnl >= trailing_step * 100
        /\ pnl < 4 * trailing_step * 100
        /\ st.highest_pnl_percent = pnl
        /\ last_poll.reqs # <<>>
        /\ AllOk(last_poll.reqs))
       => exch_sl = calculate_sl_price(bybit_pos.avgPrice,
                                       target_sl_level(pnl) - trailing_step, Side)

\* C11: the tracked current_sl_level is always a non-negative multiple of
\* trailing_step, and a cycle never leaves it below the value it had before
\* the cycle, whatever the mark prices and the answers to the requests.
C11_LevelMultipleNonDecreasing ==
    LET key == get_position_key(bybit_pos)
    IN key \in DOMAIN positions_state =>
          LET level == positions_state[key].current_sl_level
          IN /\ level >= 0
             /\ level % trailing_step = 0
             /\ last_poll.evaluated => level >= last_poll.old_level

\* a cycle raised a level that was already positive
C11_Witness ==
    /\ last_poll.evaluated
    /\ last_poll.old_level > 0
    /\ positions_state[get_position_key(bybit_pos)].current_sl_level
          > last_poll.old_level

\* the level request of a cycle is the last request it sends
LevelRequestFailed(reqs) == reqs # <<>> /\ ~reqs[Len(reqs)].ok

\* C12: when the request for a new level fails, current_sl_level keeps the
\* value it had before the cycle; and the next cycle whose PnL still warrants
\* that level (its target stop is not behind the one that failed) sends a
\* level request again, for its target.
C12_FailedRequestRetried ==
    LET key    == get_position_key(bybit_pos)
        entry  == bybit_pos.avgPrice
        target == target_sl_level(calculate_pnl_percent(entry, last_poll.mark, Side))
        price  == calculate_sl_price(entry, target, Side)
    IN /\ (last_poll.evaluated /\ LevelRequestFailed(last_poll.reqs))
          => positions_state[key].current_sl_level = last_poll.old_level
       /\ (/\ last_poll.evaluated
           /\ LevelRequestFailed(last_poll.prev_reqs)
           /\ NotBackward(Side, last_poll.prev_reqs[Len(last_poll.prev_reqs)].price, price))
          => /\ last_poll.reqs # <<>>
             /\ last_poll.reqs[Len(last_poll.reqs)].price = price

\* a level request failed above a positive level and the next cycle sent it again
C12_Witness ==
    /\ last_poll.evaluated
    /\ last_poll.old_level > 0
    /\ LevelRequestFailed(last_poll.prev_reqs)
    /\ last_poll.reqs # <<>>
    /\ last_poll.reqs[Len(last_poll.reqs)].price
          = last_poll.prev_reqs[Len(last_poll.prev_reqs)].price

\* profit of the position in hundredths of a percent, by side
ProfitPercent(entry, mark, side) ==
    IF side = "Buy" THEN ((mark - entry) * 10000) \div entry
                    ELSE ((entry - mark) * 10000) \div entry

\* C17: a cycle in which the position's PnL is negative or below
\* trailing_step sends no stop-loss request and leaves current_sl_level as it
\* was, whatever level was reached before.
C17_BelowStepNoAction ==
    (/\ last_poll.evaluated
     /\ ProfitPercent(bybit_pos.avgPrice, last_poll.mark, Side) < trailing_step * 100)
    => /\ last_poll.reqs = <<>>
       /\ positions_state[get_position_key(bybit_pos)].current_sl_level
             = last_poll.old_level

\* PnL fell below one step after a level had been reached
C17_Witness ==
    /\ last_poll.evaluated
    /\ last_poll.old_level > 0
    /\ ProfitPercent(bybit_pos.avgPrice, last_poll.mark, Side) < trailing_step * 100

\* C14: a position is tracked from a record of its own: the record a cycle
\* works on carries the entry price of the position the exchange lists, and
\* the first cycle that evaluates a position finds current_sl_level 0 and a
\* highest PnL that owes nothing to an earlier position of the same key.
C14_FreshRecordPerPosition ==
    LET st  == positions_state[get_position_key(bybit_pos)]
        pnl == ProfitPercent(bybit_pos.avgPrice, last_poll.mark, Side)
    IN /\ last_poll.evaluated => st.entry_price = bybit_pos.avgPrice
       /\ (last_poll.evaluated /\ last_poll.first)
          => /\ last_poll.old_level = 0
             /\ st.highest_pnl_percent = Max(0, pnl)

\* C16: in a cycle over two positions in which a stop-loss request of the
\* first one failed, the second one is still evaluated when it has a price,
\* and when its PnL warrants a level above its own it gets its level request,
\* whose success is stored.
C16_FailureDoesNotBlockOthers ==
    LET side   == other_pos.side
        entry  == other_pos.avgPrice
        target == target_sl_level(ProfitPercent(entry, other_poll.mark, side))
        reqs   == other_poll.reqs
    IN (/\ \E i \in 1..Len(last_poll.reqs) : ~last_poll.reqs[i].ok
        /\ other_poll.mark > 0)
       => /\ other_poll.evaluated
          /\ target > other_poll.old_level
             => /\ reqs # <<>>
                /\ reqs[Len(reqs)].price = calculate_sl_price(entry, target, side)
                /\ reqs[Len(reqs)].ok
                   => positions_state[get_position_key(other_pos)].current_sl_level
                         = target

\* the first position's level request failed and the second position's stop
\* was raised in the same cycle
C16_Witness ==
    /\ LevelRequestFailed(last_poll.reqs)
    /\ other_poll.evaluated
    /\ other_poll.reqs # <<>>
    /\ AllOk(other_poll.reqs)
    /\ positions_state[get_position_key(other_pos)].current_sl_level
          > other_poll.old_level

\* C18: when the loop of run has been stopped, the last cycle has run to its
\* end: it sent every request its position warranted, in particular the
\* level request after the break-even request of a first transition.
C18_StopLetsCycleFinish ==
    LET entry == bybit_pos.avgPrice
        pnl   == calculate_pnl_percent(entry, last_poll.mark, Side)
        due   == Requests(entry, Side, last_poll.old_level, target_sl_level(pnl), pnl,
                          TRUE, TRUE)
    IN (pm_pc = "stopped" /\ last_poll.evaluated)
       => Prices(last_poll.reqs) = Prices(due)

\* C19: no failure inside a cycle ends run, and after every cycle, failed or
\* not, a further cycle is eventually started unless the operator stops the
\* loop.
C19_PollerLiveness ==
    /\ [](pm_pc # "crashed")
    /\ (pm_pc = "sleeping") ~> (pm_pc = "checking" \/ pm_pc = "stopped")

\* a cycle has been started after a cycle that failed
C19_Witness ==
    /\ pm_pc = "checking"
    /\ pm_failure \in CycleFailures

\* a cycle of the trailing manager that got no price
SkippedPoll == last_poll' # last_poll /\ last_poll'.mark = 0

\* a job: its first price is for check_and_execute_tp, its second for
\* manage_open_trades
JobRan == last_cycle' # last_cycle

CallsBy(log, who) ==
    Len(SelectSeq(log.closes, LAMBDA c : c.by = who))
      + Len(SelectSeq(log.sl_reqs, LAMBDA r : r.by = who))

------------------------------------------------------------------------\* C24: calculate_pnl_percent reports an invalid-input error for every
\* entry price <= 0 and returns 0 when the mark equals a positive entry.
C24_InvalidInputReported ==
    pnl_call.applied
      => /\ pnl_call.entry_price <= 0 => pnl_call.raised
         /\ (pnl_call.entry_price > 0 /\ pnl_call.current_price = pnl_call.entry_price)
              => (~pnl_call.raised /\ pnl_call.result = 0)

\* C27: every stop-loss request of a poll asks for a price that is not
\* beyond the mark of that poll: at most the mark for a Buy position, at
\* least the mark for a Sell position.
C27_StopNotBeyondMark ==
    \A i \in 1..Len(last_poll.reqs) :
       IF bybit_pos.side = "Buy" THEN last_poll.reqs[i].price <= last_poll.mark
                                 ELSE last_poll.reqs[i].price >= last_poll.mark

-----
(* Staged take-profit: properties *)

RecordsAtLevel(k) == {i \in 1..Len(tp_records) : tp_records[i].tp_level = k}

SentStops == SelectSeq(last_cycle.sl_reqs, LAMBDA r : r.sent)

\* no call of the latest job failed
CycleCallsOk ==
    /\ \A i \in 1..Len(last_cycle.closes) : last_cycle.closes[i].ok
    /\ \A i \in 1..Len(last_cycle.sl_reqs) : last_cycle.sl_reqs[i].ok

Ascending(S) ==
    [i \in 1..Cardinality(S) |-> CHOOSE k \in S : Cardinality({j \in S : j < k}) = i - 1]

\* C3: each tier level is executed at most once for a trade: the trade never
\* has two tp records (one per successful partial close) of the same level.
C3_AtMostOncePerTier ==
    \A k \in 1..5 : Cardinality(RecordsAtLevel(k)) <= 1

\* C4: every tier's partial close takes its fraction of the original volume,
\* so once tiers 1..5 have all fired nothing of the position remains.
C4_SizeConservation ==
    /\ \A i \in 1..Len(last_cycle.closes) :
          LET c == last_cycle.closes[i]
          IN (c.by = "tp_manager" /\ c.ok)
             => c.volume = (trade.volume * tp_percentages[c.tp_level]) \div 100
    /\ (\A k \in 1..5 : RecordsAtLevel(k) # {}) => lbank_pos.volume = 0

\* C6: a job whose price is beyond the thresholds of two or more tiers not
\* yet executed, and whose exchange calls all succeed, fires all of those
\* tiers in that job, in ascending order.
C6_GapFiresAllTiers ==
    LET lv      == calculate_tp_levels(trade.entry_price, trade.side)
        crossed == {k \in 1..5 : /\ k \notin last_cycle.pre_levels
                                 /\ PriceReached(trade.side, last_cycle.price1, lv[k].price)}
    IN (last_cycle.price1 > 0 /\ Cardinality(crossed) >= 2 /\ CycleCallsOk)
       => last_cycle.fired = Ascending(crossed)

\* C7: once tier 1 has a record, no later job sends a stop-loss price on the
\* losing side of the entry price: below it for LONG, above it for SHORT.
C7_BreakEvenHeld ==
    (1 \in last_cycle.pre_levels) =>
        \A i \in 1..Len(SentStops) :
            IF trade.side = "LONG" THEN SentStops[i].price >= trade.entry_price
                                   ELSE SentStops[i].price <= trade.entry_price

\* a job after tier 1 fired that sent a stop-loss request
C7_Witness ==
    /\ 1 \in last_cycle.pre_levels
    /\ SentStops # <<>>

\* C8: the move-stop-to-break-even request is sent at most once per trade.
C8_BreakEvenOnce == be_requests <= 1

\* C13: the trade is marked CLOSED in the trade store only when the
\* exchange's close-position request succeeded, that is, only when the
\* position is gone from the exchange; after a failed close it is still OPEN.
C13_ClosedOnlyAfterExchangeClose ==
    trade.status = "CLOSED" => lbank_pos.volume = 0

------------------------------------------------------------------------\* the partial closes of the latest job that check_and_execute_tp got through
TierCloses == SelectSeq(last_cycle.closes, LAMBDA c : c.by = "tp_manager" /\ c.ok)

\* C28: for every tier check_and_execute_tp executes, the volume_closed of
\* the tp record it writes equals the volume the exchange closed for that
\* tier through close_partial.
C28_RecordedVolumeIsClosedVolume ==
    \A i \in 1..Len(TierCloses) :
       tp_records[Len(tp_records) - Len(TierCloses) + i].volume_closed
          = TierCloses[i].volume

-----
(* Entry gate: properties *)

\* C20: every decision with should_trade = True belongs to a proposal whose
\* confidence is at least 0.6, and a proposal of lower confidence is
\* rejected with the reason that cites confidence.
C20_ConfidenceFloor ==
    /\ decision.should_trade => proposal.confidence >= 60
    /\ (/\ proposal.kind = "analysis"
        /\ proposal.recommendation # "HOLD"
        /\ proposal.confidence < 60)
       => /\ ~decision.should_trade
          /\ decision.reason = "low_confidence"
    /\ (/\ proposal.kind = "signal"
        /\ proposal.confidence < 60
        /\ can_open_trade(open_trades, daily_perf).ok)
       => ~decision.should_trade

\* the side an approved decision trades
DecisionSide == IF decision.action = "OPEN_LONG" THEN "LONG" ELSE "SHORT"

\* distance from entry to the stop, positive when the stop is on the losing side
DecisionRisk ==
    IF DecisionSide = "LONG" THEN decision.entry_price - decision.stop_loss
                             ELSE decision.stop_loss - decision.entry_price

\* distance from entry to the first take profit
DecisionReward ==
    IF DecisionSide = "LONG" THEN decision.take_profit - decision.entry_price
                             ELSE decision.entry_price - decision.take_profit

\* C21: every decision with should_trade = True has an entry, a stop and a
\* target with risk > 0 and reward/risk >= 1.5, on the signal path and on
\* the analysis path.
C21_RiskRewardOnApproval ==
    decision.should_trade
      => /\ decision.entry_price # None
         /\ decision.stop_loss # None
         /\ decision.take_profit # None
         /\ DecisionRisk > 0
         /\ DecisionReward * 10 >= DecisionRisk * 15

\* the proposal got as far as the account limits
ReachedAccountLimits ==
    \/ proposal.kind = "signal"
    \/ /\ proposal.kind = "analysis"
       /\ proposal.recommendation # "HOLD"
       /\ proposal.confidence >= 60

\* C22: a proposal is rejected for the account limits exactly when the OPEN
\* trades counted are >= 5 or today's recorded P&L% is <= -10, the
\* open-trade limit being the reason when both hold; otherwise the limits
\* let it pass.
C22_AccountLimits ==
    ReachedAccountLimits
      => /\ decision.reason = "max_open_trades" <=> last_call.open_before >= 5
         /\ decision.reason = "daily_loss"
              <=> /\ last_call.open_before < 5
                  /\ daily_perf.exists
                  /\ daily_perf.pnl_percentage <= -1000

C22_Witness ==
    /\ ReachedAccountLimits
    /\ last_call.open_before >= 5
    /\ daily_perf.exists
    /\ daily_perf.pnl_percentage <= -1000
    /\ decision.reason = "max_open_trades"

\* stop distance of the proposal in hundredths of a percent of the entry
StopDistance ==
    IF proposal.stop_loss > proposal.entry
    THEN ((proposal.stop_loss - proposal.entry) * 10000) \div proposal.entry
    ELSE ((proposal.entry - proposal.stop_loss) * 10000) \div proposal.entry

\* C23: an approved signal with a stop at a distance > 0 gets the volume
\* min(balance * 2% / (distance% / 100), balance * 5%), and no approved
\* volume exceeds 5% of the balance.
C23_PositionSize ==
    /\ (/\ decision.should_trade
        /\ proposal.kind = "signal"
        /\ proposal.stop_loss # None
        /\ StopDistance > 0)
       => LET by_risk == (last_call.balance * 2 * 100) \div StopDistance
              ceiling == (last_call.balance * 5) \div 100
          IN decision.volume = IF by_risk < ceiling THEN by_risk ELSE ceiling
    /\ decision.should_trade => decision.volume * 100 <= last_call.balance * 5

\* a signal with a stop so far away that the risk-based size is below the ceiling
C23_Witness ==
    /\ decision.should_trade
    /\ proposal.kind = "signal"
    /\ proposal.stop_loss # None
    /\ last_call.balance > 0
    /\ decision.volume * 100 < last_call.balance * 5

\* C25: the number of trades recorded as OPEN never exceeds 5, whatever
\* signals, analyses and manual signals are processed and executed.
C25_OpenTradeBound == open_trades <= 5

\* a signal with several entry prices was approved and executed as the fifth trade
C25_Witness ==
    /\ proposal.kind = "signal"
    /\ proposal.entries > 1
    /\ decision.should_trade
    /\ last_call.rows > 0
    /\ open_trades = 5

RECURSIVE SumVolumes(_)
SumVolumes(requests) ==
    IF requests = <<>> THEN 0 ELSE Head(requests) + SumVolumes(Tail(requests))

\* C26: when execute_trade acts on an approved decision, the volumes of the
\* orders it places add up to decision.volume.
C26_ApprovedSizeTraded ==
    (last_call.called /\ decision.should_trade)
      => SumVolumes(last_call.requests) = decision.volume

\* C29: execute_trade on a decision with should_trade = False sends no
\* order and saves no trade row, and every rejection has action SKIP and
\* volume 0.
C29_NoOrderWithoutApproval ==
    (proposal # NoProposal /\ ~decision.should_trade)
      => /\ last_call.requests = <<>>
         /\ last_call.rows = 0
         /\ open_trades = last_call.open_before
         /\ decision.action = "SKIP"
         /\ decision.volume = 0

C29_Witness ==
    /\ proposal # NoProposal
    /\ ~decision.should_trade
    /\ last_call.called
    /\ open_trades < 5


-----------------------------------------------------------------------------
(* AutoTrader: properties *)

\* C30: open_signals never holds more than max_open_positions (5) symbols
\* and never holds the same symbol twice.
C30_SignalBound ==
    /\ Len(open_signals) <= 5
    /\ \A i, j \in 1..Len(open_signals) :
          i # j => open_signals[i] # open_signals[j]

====
